---- MODULE Spec2Model ----
(***************************************************************************)
(* A model of xoutil.cl: the two logical values, the coercer factory,      *)
(* vouch, the primitive coercers and the custom (composite) coercers.      *)
(*                                                                         *)
(* Python values are records of one shape, [ty, n, s, items]: `ty` is the *)
(* concrete type, `n` an integer payload, `s` a string payload and `items` *)
(* the members of a container (or the inner data of a coercer).  A float   *)
(* keeps twice its value in `n` (so 1.5 is n = 3); inf has s = "inf".      *)
(* A raised exception is the value of type "raise" whose `s` names it.     *)
(*                                                                         *)
(* Object identity (`is`) on members is equality of these records: every   *)
(* primitive coercer either returns its argument or a value of another     *)
(* type.  The identity of the container handed to a structural coercer is  *)
(* tracked explicitly (fields `alias` and `argNow` of the call records).   *)
(***************************************************************************)
EXTENDS Integers, Sequences, FiniteSets, TLC

VARIABLES inst, scope, last, run

vars == <<inst, scope, last, run>>

----------------------------------------------------------------------------
\* Values

Val(ty, n, s, items) == [ty |-> ty, n |-> n, s |-> s, items |-> items]

nil == Val("nil", 0, "", <<>>)
t == Val("t", 1, "", <<>>)
None == Val("None", 0, "", <<>>)
Unset == Val("Unset", 0, "", <<>>)
Object == Val("object", 0, "", <<>>)
PyBool(b) == Val("bool", IF b THEN 1 ELSE 0, "", <<>>)

PyInt(n) == Val("int", n, "", <<>>)
PyFloat(h) == Val("float", h, "", <<>>)
Inf == Val("float", 0, "inf", <<>>)
PyComplex(h, im) == Val("complex", h, im, <<>>)
PyStr(s) == Val("str", 0, s, <<>>)
Type(name) == Val("type", 0, name, <<>>)
Function(name) == Val("function", 0, name, <<>>)
Coercer(name, inner) == Val("coercer", 0, name, inner)
Raise(kind) == Val("raise", 0, kind, <<>>)

Tuple(items) == Val("tuple", 0, "", items)
List(items) == Val("list", 0, "", items)
SetOf(items) == Val("set", 0, "", items)
Generator(items) == Val("generator", 0, "", items)
Pair(k, v) == Val("pair", 0, "", <<k, v>>)
Dict(pairs) == Val("dict", 0, "", pairs)
MappingProxy(pairs) == Val("mappingproxy", 0, "", pairs)

IsRaise(v) == v.ty = "raise"

\* bool(v)
Truthy(v) ==
    CASE v.ty \in {"int", "bool"} -> v.n # 0
      [] v.ty = "float" -> v.n # 0 \/ v.s # ""
      [] v.ty = "complex" -> v.n # 0 \/ v.s # "0"
      [] v.ty = "str" -> v.s # ""
      [] v.ty \in {"nil", "None", "Unset"} -> FALSE
      [] v.ty \in {"tuple", "list", "set", "dict", "mappingproxy"} -> Len(v.items) > 0
      [] OTHER -> TRUE

\* iterating a str yields its characters
Chars(s) ==
    CASE s = "" -> <<>>
      [] s = "inf" -> <<PyStr("i"), PyStr("n"), PyStr("f")>>
      [] s = "1.5" -> <<PyStr("1"), PyStr("."), PyStr("5")>>
      [] s = "3.0" -> <<PyStr("3"), PyStr("."), PyStr("0")>>
      [] s = "a.b" -> <<PyStr("a"), PyStr("."), PyStr("b")>>
      [] OTHER -> <<PyStr(s)>>

\* isinstance(arg, Iterable), Sized, Sequence, MutableSequence, Set, Mapping
IsIterable(v) == v.ty \in {"str", "tuple", "list", "set", "dict", "mappingproxy", "generator"}
IsSized(v) == v.ty \in {"str", "tuple", "list", "set", "dict", "mappingproxy"}
IsSequence(v) == v.ty \in {"str", "tuple", "list"}
IsMutableSequence(v) == v.ty = "list"
IsSet(v) == v.ty = "set"
IsMapping(v) == v.ty \in {"dict", "mappingproxy"}
IsMutableMapping(v) == v.ty = "dict"

RECURSIVE Keys(_)
Keys(pairs) ==
    IF pairs = <<>> THEN <<>> ELSE <<pairs[1].items[1]>> \o Keys(Tail(pairs))

\* iter(v): the members in iteration order (the keys of a mapping)
Members(v) ==
    CASE v.ty = "str" -> Chars(v.s)
      [] IsMapping(v) -> Keys(v.items)
      [] OTHER -> v.items

\* numbers that compare (and hash) equal across int, float and complex
HasNumKey(v) ==
    \/ v.ty = "int"
    \/ v.ty = "float" /\ v.s = ""
    \/ v.ty = "complex" /\ v.s = "0"
NumKey(v) == IF v.ty = "int" THEN 2 * v.n ELSE v.n

\* a == b
PyEq(a, b) ==
    IF HasNumKey(a) /\ HasNumKey(b) THEN NumKey(a) = NumKey(b) ELSE a = b

RECURSIVE Hashable(_)
Hashable(v) ==
    CASE v.ty \in {"list", "set", "dict"} -> FALSE
      [] v.ty = "tuple" -> \A i \in 1..Len(v.items) : Hashable(v.items[i])
      [] OTHER -> TRUE

\* hash(a) == hash(b), for hashable a and b
SameHash(a, b) == PyEq(a, b)

\* x in seq, by ==
Contains(seq, x) == \E i \in 1..Len(seq) : PyEq(seq[i], x)

----------------------------------------------------------------------------
\* logical.__call__ : t(arg) and nil(arg)

\* a faulty variant: t(arg) without the `or arg is nil` clause
logical_call_truthiness(self, arg) ==
    IF self = t
    THEN (IF Truthy(arg) THEN arg ELSE self)
    ELSE (IF arg = self THEN t ELSE self)

logical_call(self, arg) ==
    IF self = t
    THEN (IF Truthy(arg) \/ arg = nil THEN arg ELSE self)
    ELSE (IF arg = self THEN t ELSE self)

\* `if t(x):` as the code writes its success test
ok(x) == Truthy(logical_call(t, x))

----------------------------------------------------------------------------
\* Primitive coercers.  Apply(c, v) is the call c(v) of any coercer value.

RECURSIVE Apply(_, _)
RECURSIVE CallValue(_, _, _)

\* a faulty variant of identity_coerce: `arg or nil`
identity_coerce_truthy(arg) == IF Truthy(arg) THEN arg ELSE nil

identity_coerce(arg) == arg

void_coerce(arg) == nil

type_coerce(arg) == IF arg.ty = "type" THEN arg ELSE nil

types_tuple_coerce(arg) ==
    IF ok(type_coerce(arg)) THEN Tuple(<<arg>>)
    ELSE IF arg.ty = "tuple" /\ \A i \in 1..Len(arg.items) : ok(type_coerce(arg.items[i]))
    THEN arg
    ELSE nil

IsCallable(v) == v.ty \in {"function", "coercer", "type", "t", "nil"}

callable_coerce(arg) == IF IsCallable(arg) THEN arg ELSE nil

\* float(s) for the strings of the model; the others raise ValueError
ParseFloat(s) ==
    CASE s = "1" -> PyFloat(2)
      [] s = "3.0" -> PyFloat(6)
      [] s = "1.5" -> PyFloat(3)
      [] s = "inf" -> Inf
      [] OTHER -> Raise("ValueError")

float_coerce(arg) ==
    CASE arg.ty = "float" -> arg
      [] arg.ty = "int" -> PyFloat(2 * arg.n)
      [] arg.ty = "str" ->
            (IF IsRaise(ParseFloat(arg.s)) THEN nil ELSE ParseFloat(arg.s))
      [] arg.ty = "complex" -> (IF arg.s = "0" THEN PyFloat(arg.n) ELSE nil)
      [] OTHER -> nil

\* int(f) of a float: truncation; inf has no integer value
IntOfFloat(f) ==
    IF f.s # "" THEN Raise("OverflowError")
    ELSE IF f.n >= 0 THEN PyInt(f.n \div 2) ELSE PyInt(-((-f.n) \div 2))

int_coerce(arg) ==
    IF arg.ty = "int" THEN arg
    ELSE LET f == float_coerce(arg) IN
         IF ok(f)
         THEN LET res == IntOfFloat(f) IN
              IF IsRaise(res) THEN res
              ELSE IF f.n - 2 * res.n = 0 THEN res ELSE nil
         ELSE nil

number_coerce(arg) ==
    IF arg.ty = "int" THEN arg
    ELSE LET f == float_coerce(arg) IN
         IF ok(f)
         THEN LET i == IntOfFloat(f) IN
              IF IsRaise(i) THEN i
              ELSE IF f.n - 2 * i.n = 0 THEN i ELSE f
         ELSE nil

positive_int_coerce(arg) ==
    LET res == int_coerce(arg) IN
    IF IsRaise(res) THEN res
    ELSE IF res = nil \/ res.n >= 0 THEN res ELSE nil

\* the coercer returned by create_int_range_coerce(min, max)
int_range_inner(min, max, arg0) ==
    LET arg == int_coerce(arg0) IN
    IF IsRaise(arg) THEN arg
    ELSE IF ok(arg) /\ min <= arg.n /\ arg.n <= max THEN arg ELSE nil

\* _IDENTIFIER_REGEX.match(s) and _FULL_IDENTIFIER_REGEX.match(s)
MatchesIdentifier(s) == s \in {"x", "a", "b", "i", "n", "f", "inf"}
MatchesFullIdentifier(s) == MatchesIdentifier(s) \/ s = "a.b"

identifier_coerce(arg) ==
    IF arg.ty = "str" /\ MatchesIdentifier(arg.s) THEN arg ELSE nil

full_identifier_coerce(arg) ==
    IF arg.ty = "str" /\ MatchesFullIdentifier(arg.s) THEN arg ELSE nil

sized_coerce(arg) ==
    IF IsIterable(arg)
    THEN (IF IsSized(arg) THEN arg ELSE List(Members(arg)))
    ELSE nil

\* the coercer returned by create_unique_member_coerce(coerce, container)
unique_member_check(container, arg, res) ==
    IF IsRaise(res) \/ ~ok(res) THEN res
    ELSE IF ~Hashable(res) \/ ~Hashable(arg) THEN Raise("TypeError")
    ELSE IF SameHash(res, arg) THEN res
    ELSE IF ~IsIterable(container) THEN Raise("TypeError")
    ELSE IF Contains(Members(container), res) THEN nil ELSE res

unique_member_inner(coerce, container, arg) ==
    unique_member_check(container, arg, Apply(coerce, arg))

----------------------------------------------------------------------------
\* The coercer factory, vouch and plain callables

identity == Coercer("identity_coerce", <<>>)
void == Coercer("void_coerce", <<>>)
CoercerClass == Type("coercer")

\* isinstance(v, boolean): the symbols t, nil, Unset and the Python booleans
IsBoolean(v) == v.ty \in {"t", "nil", "Unset", "bool"}

\* isinstance(v, coercer): the __coercer__ mark (MetaCoercer.__instancecheck__)
IsCoercer(v) == v.ty = "coercer" \/ v = CoercerClass

\* isinstance(v, types) for a tuple of types
IsInstance(v, types) ==
    \E i \in 1..Len(types) :
        \/ types[i].s = "object"
        \/ types[i].s = v.ty
        \/ types[i].s = "int" /\ v.ty = "bool"
        \/ types[i].s = "Mapping" /\ IsMapping(v)

\* istype.__new__
istype_new(types) ==
    IF Truthy(types)
    THEN (IF ok(types_tuple_coerce(types))
          THEN Coercer("istype", types_tuple_coerce(types).items)
          ELSE Raise("CoercionError"))
    ELSE void

\* coercer.__new__
coercer_new(source) ==
    IF IsBoolean(source) /\ source.n = 1 THEN identity
    ELSE IF source = None \/ (IsBoolean(source) /\ source.n = 0) THEN void
    ELSE IF IsCoercer(source) THEN source
    ELSE IF source.ty = "function" THEN Coercer(source.s, source.items)
    ELSE LET inner == types_tuple_coerce(source) IN
         IF Truthy(inner) THEN istype_new(inner) ELSE nil

\* the test `if t(res)` of vouch
\* (a faulty variant: `if res`)
vouch_accepts_truthy(res) == Truthy(res)

vouch_accepts(res) == ok(res)

\* the arguments vouch passes on: a single positional nil stands for none
vouch_args_kept(args) == args

vouch_args(args) == IF Len(args) = 1 /\ args[1] = nil THEN <<>> ELSE args

\* vouch(fn, *args, **kwargs); kw tells whether a keyword argument is given
vouch_check(called, res) ==
    [invoked |-> TRUE, called |-> called, fnres |-> res,
     res |-> IF IsRaise(res) \/ vouch_accepts(res) THEN res
             ELSE Raise("CoercionError")]

vouch(fn, args, kw) ==
    IF Len(args) > 0 \/ kw
    THEN vouch_check(vouch_args(args), CallValue(fn, vouch_args(args), kw))
    ELSE [invoked |-> FALSE, called |-> <<>>, fnres |-> Unset,
          res |-> Val("function", 0, "vouch", <<fn>>)]

\* create_int_range_coerce(min, max)
create_int_range_coerce(min, max) ==
    LET lo == vouch(Val("coercer", 0, "int_coerce", <<>>), <<min>>, FALSE).res
        hi == vouch(Val("coercer", 0, "int_coerce", <<>>), <<max>>, FALSE).res IN
    IF IsRaise(lo) THEN lo
    ELSE IF IsRaise(hi) THEN hi
    ELSE IF lo.n < hi.n THEN Coercer("int_range", <<lo, hi>>)
    ELSE Raise("ValueError")

\* plain Python callables handed to vouch and safe
CallFunction(f, args, kw) ==
    CASE f.s = "noargs" ->
            (IF Len(args) = 0 /\ ~kw THEN PyInt(0) ELSE Raise("TypeError"))
      [] f.s = "nothing" ->
            (IF Len(args) = 0 /\ ~kw THEN nil ELSE Raise("TypeError"))
      [] f.s = "collect" -> Tuple(args)
      [] f.s = "vouch" -> vouch(f.items[1], args, kw).res
      [] Len(args) # 1 \/ kw -> Raise("TypeError")
      [] f.s = "positive" ->
            (IF HasNumKey(args[1]) THEN PyBool(NumKey(args[1]) > 0)
             ELSE IF args[1] = Inf THEN PyBool(TRUE)
             ELSE Raise("TypeError"))
      [] f.s = "is_str" -> PyBool(args[1].ty = "str")
      [] f.s = "same" -> args[1]
      [] f.s = "to_nil" -> nil
      [] OTHER -> Raise("ValueError")

CallValue(f, args, kw) ==
    CASE f.ty = "function" -> CallFunction(f, args, kw)
      [] Len(args) # 1 \/ kw -> Raise("TypeError")
      [] f.ty = "coercer" -> Apply(f, args[1])
      [] f.ty \in {"t", "nil"} -> logical_call(f, args[1])
      [] f = CoercerClass -> coercer_new(args[1])
      [] OTHER -> Raise("TypeError")

----------------------------------------------------------------------------
\* flatten, compose and some

\* (a faulty variant: an instance of the class is not opened)
inward_opaque(cls, c) == c

\* custom.inward, for the class named cls
inward(cls, c) ==
    IF c.ty = "coercer" /\ c.s = cls THEN Tuple(c.items) ELSE c

\* flatten(cls.inward)(arg): List of coercers, or the exception of vouch
RECURSIVE flatten_call(_, _)
RECURSIVE flatten_map(_, _)
\* the concatenation of two flattened lists; an exception goes through
Concat(head, rest) ==
    IF IsRaise(head) THEN head
    ELSE IF IsRaise(rest) THEN rest
    ELSE List(head.items \o rest.items)

\* [c], for the outcome c of vouch
Single(c) == IF IsRaise(c) THEN c ELSE List(<<c>>)

flatten_map(cls, seq) ==
    IF seq = <<>> THEN List(<<>>)
    ELSE Concat(flatten_call(cls, seq[1]), flatten_map(cls, Tail(seq)))

flatten_call(cls, arg) ==
    IF inward(cls, arg).ty \in {"tuple", "list"}
    THEN flatten_map(cls, inward(cls, arg).items)
    ELSE Single(vouch(CoercerClass, <<inward(cls, arg)>>, FALSE).res)

\* flatten(cls.inward)(coercers) without the neutral element of the class
Without(flat, neutral) ==
    LET Keep(c) == c # neutral IN
    IF IsRaise(flat) THEN flat ELSE List(SelectSeq(flat.items, Keep))

flat_inner(cls, coercers, neutral) ==
    Without(flatten_call(cls, Tuple(coercers)), neutral)

\* (a faulty variant: a single survivor is wrapped, not returned)
compose_pick_wrapping(inner, options) ==
    IF IsRaise(inner) THEN inner
    ELSE IF Len(inner.items) > 0 THEN Coercer("compose", inner.items)
    ELSE IF DOMAIN options \subseteq {"default"}
    THEN (IF "default" \in DOMAIN options THEN options.default ELSE identity)
    ELSE Raise("TypeError")

\* compose.__new__(cls, *coercers, **options)
compose_pick(inner, options) ==
    IF IsRaise(inner) THEN inner
    ELSE IF Len(inner.items) > 1 THEN Coercer("compose", inner.items)
    ELSE IF Len(inner.items) = 1 THEN inner.items[1]
    ELSE IF DOMAIN options \subseteq {"default"}
    THEN (IF "default" \in DOMAIN options THEN options.default ELSE identity)
    ELSE Raise("TypeError")

compose_new(coercers, options) ==
    compose_pick(flat_inner("compose", coercers, identity), options)

\* some.__new__(cls, *coercers)
some_pick(inner) ==
    IF IsRaise(inner) THEN inner
    ELSE IF Len(inner.items) > 1 THEN Coercer("some", inner.items)
    ELSE IF Len(inner.items) = 1 THEN inner.items[1]
    ELSE void

some_new(coercers) == some_pick(flat_inner("some", coercers, void))

\* `coerce = coercers[i]` of compose.__call__ (i counts from 0)
\* (a faulty variant: the coercers taken from the last one)
compose_coercer_reversed(coercers, i) == coercers[Len(coercers) - i]

compose_coercer(coercers, i) == coercers[i + 1]

\* (a faulty variant: a coercer that accepts clears scope)
compose_step_clearing(st, coerce, aux) ==
    LET entry == [c |-> coerce, arg |-> st.res] IN
    IF IsRaise(aux)
    THEN [st EXCEPT !.raised = TRUE, !.res = aux, !.log = Append(@, entry)]
    ELSE IF ok(aux)
    THEN [st EXCEPT !.i = @ + 1, !.res = aux, !.scope = Unset,
                    !.log = Append(@, entry)]
    ELSE [st EXCEPT !.ok = FALSE, !.scope = Tuple(<<st.res, coerce>>),
                    !.res = aux, !.log = Append(@, entry)]

\* one iteration of the loop of compose.__call__
compose_step(st, coerce, aux) ==
    LET entry == [c |-> coerce, arg |-> st.res] IN
    IF IsRaise(aux)
    THEN [st EXCEPT !.raised = TRUE, !.res = aux, !.log = Append(@, entry)]
    ELSE IF ok(aux)
    THEN [st EXCEPT !.i = @ + 1, !.res = aux, !.log = Append(@, entry)]
    ELSE [st EXCEPT !.ok = FALSE, !.scope = Tuple(<<st.res, coerce>>),
                    !.res = aux, !.log = Append(@, entry)]

compose_body(self, st) ==
    compose_step(st, compose_coercer(self.items, st.i),
                 Apply(compose_coercer(self.items, st.i), st.res))

RECURSIVE compose_loop(_, _)
compose_loop(self, st) ==
    IF ~st.raised /\ st.ok /\ st.i < Len(self.items)
    THEN compose_loop(self, compose_body(self, st))
    ELSE st

\* compose.__call__(self, arg), the instance holding scope0 in `scope`
compose_call(self, arg, scope0) ==
    compose_loop(self, [i |-> 0, res |-> arg, ok |-> TRUE, raised |-> FALSE,
                        scope |-> scope0, log |-> <<>>])

\* `coercer = coercers[i]` of some.__call__ (i counts from 0)
some_coercer_reversed(coercers, i) == coercers[Len(coercers) - i]

some_coercer(coercers, i) == coercers[i + 1]

\* (a faulty variant: once scope names a coercer, the others are skipped)
some_step_sticky(st, arg, coercer, value) ==
    LET entry == [c |-> coercer, arg |-> arg] IN
    IF IsRaise(value)
    THEN [st EXCEPT !.raised = TRUE, !.res = value, !.log = Append(@, entry)]
    ELSE IF ok(value) /\ st.scope \in {Unset, coercer}
    THEN [st EXCEPT !.res = value, !.scope = coercer, !.log = Append(@, entry)]
    ELSE [st EXCEPT !.i = @ + 1, !.log = Append(@, entry)]

\* one iteration of the loop of some.__call__
some_step(st, arg, coercer, value) ==
    LET entry == [c |-> coercer, arg |-> arg] IN
    IF IsRaise(value)
    THEN [st EXCEPT !.raised = TRUE, !.res = value, !.log = Append(@, entry)]
    ELSE IF ok(value)
    THEN [st EXCEPT !.res = value, !.scope = coercer, !.log = Append(@, entry)]
    ELSE [st EXCEPT !.i = @ + 1, !.log = Append(@, entry)]

some_body(self, arg, st) ==
    some_step(st, arg, some_coercer(self.items, st.i),
              Apply(some_coercer(self.items, st.i), arg))

RECURSIVE some_loop(_, _, _)
some_loop(self, arg, st) ==
    IF ~st.raised /\ st.res = nil /\ st.i < Len(self.items)
    THEN some_loop(self, arg, some_body(self, arg, st))
    ELSE st

\* some.__call__(self, arg)
some_call(self, arg, scope0) ==
    some_loop(self, arg, [i |-> 0, res |-> nil, raised |-> FALSE,
                          scope |-> scope0, log |-> <<>>])

----------------------------------------------------------------------------
\* Containers: dict operations and type(arg)(res)

RECURSIVE Dedup(_)
Dedup(items) ==
    IF items = <<>> THEN <<>>
    ELSE LET init == Dedup(SubSeq(items, 1, Len(items) - 1))
             x == items[Len(items)] IN
         IF Contains(init, x) THEN init ELSE Append(init, x)

HasKey(pairs, k) == \E i \in 1..Len(pairs) : PyEq(pairs[i].items[1], k)

\* res[key]
DictGet(pairs, k) ==
    IF HasKey(pairs, k)
    THEN pairs[CHOOSE i \in 1..Len(pairs) : PyEq(pairs[i].items[1], k)].items[2]
    ELSE Raise("KeyError")

\* (a faulty variant: the old key is left in place)
DictDel_kept(pairs, k) == pairs

\* del res[key]
DictDel(pairs, k) ==
    LET Other(p) == ~PyEq(p.items[1], k) IN SelectSeq(pairs, Other)

\* res[key] = value: an equal key keeps its place and its key object
DictSet(pairs, k, v) ==
    IF HasKey(pairs, k)
    THEN [i \in 1..Len(pairs) |->
            IF PyEq(pairs[i].items[1], k) THEN Pair(pairs[i].items[1], v)
            ELSE pairs[i]]
    ELSE Append(pairs, Pair(k, v))

\* dict(list of members): every member must unpack into a key and a value
RECURSIVE DictFromItems(_)
DictFromItems(items) ==
    IF items = <<>> THEN <<>>
    ELSE LET x == items[Len(items)] IN
         DictSet(DictFromItems(SubSeq(items, 1, Len(items) - 1)),
                 Members(x)[1], Members(x)[2])

\* type(arg)(res) for a list res holding `items`; the exception if it raises
TypeRebuild(ty, items) ==
    CASE ty = "tuple" -> Tuple(items)
      [] ty = "list" -> List(items)
      [] ty = "set" ->
            (IF \A i \in 1..Len(items) : Hashable(items[i])
             THEN SetOf(Dedup(items)) ELSE Raise("TypeError"))
      [] ty = "str" -> Val("str", 0, "repr", items)
      [] ty = "dict" ->
            (IF \A i \in 1..Len(items) :
                    /\ IsIterable(items[i])
                    /\ Len(Members(items[i])) = 2
                    /\ Hashable(Members(items[i])[1])
             THEN Dict(DictFromItems(items)) ELSE Raise("TypeError"))
      [] OTHER -> Raise("TypeError")

\* `try: res = type(arg)(res) except BaseException: pass`
Recast(ty, items) ==
    IF IsRaise(TypeRebuild(ty, items)) THEN List(items) ELSE TypeRebuild(ty, items)

----------------------------------------------------------------------------
\* combo

\* (a faulty variant: an accepted value is counted but not kept)
combo_step_dropping(st, item, coerce, value) ==
    LET entry == [c |-> coerce, arg |-> item] IN
    IF IsRaise(value)
    THEN [st EXCEPT !.raised = TRUE, !.exc = value, !.log = Append(@, entry)]
    ELSE IF ok(value)
    THEN [st EXCEPT !.i = @ + 1, !.log = Append(@, entry)]
    ELSE [st EXCEPT !.failed = TRUE, !.scope = Tuple(<<item, coerce>>),
                    !.log = Append(@, entry)]

\* one iteration of the loop of combo.__call__; items is iter(arg)
combo_step(st, item, coerce, value) ==
    LET entry == [c |-> coerce, arg |-> item] IN
    IF IsRaise(value)
    THEN [st EXCEPT !.raised = TRUE, !.exc = value, !.log = Append(@, entry)]
    ELSE IF ok(value)
    THEN [st EXCEPT !.buf = Append(@, value), !.i = @ + 1,
                    !.log = Append(@, entry)]
    ELSE [st EXCEPT !.failed = TRUE, !.scope = Tuple(<<item, coerce>>),
                    !.log = Append(@, entry)]

combo_body(self, items, st) ==
    IF st.i < Len(items) /\ items[st.i + 1] # Unset
    THEN combo_step(st, items[st.i + 1], self.items[st.i + 1],
                    Apply(self.items[st.i + 1], items[st.i + 1]))
    ELSE [st EXCEPT !.ok = FALSE]

RECURSIVE combo_loop(_, _, _)
combo_loop(self, items, st) ==
    IF ~st.raised /\ ~st.failed /\ st.ok /\ st.i < Len(self.items)
    THEN combo_loop(self, items, combo_body(self, items, st))
    ELSE st

\* combo.__call__(self, arg)
combo_end(arg, st) ==
    [res |-> IF st.raised THEN st.exc
             ELSE IF st.failed THEN nil ELSE Recast(arg.ty, st.buf),
     scope |-> st.scope, log |-> st.log, alias |-> FALSE, argNow |-> arg]

combo_call(self, arg, scope0) ==
    IF IsIterable(arg)
    THEN combo_end(arg, combo_loop(self, Members(arg),
                      [i |-> 0, buf |-> <<>>, ok |-> TRUE, failed |-> FALSE,
                       raised |-> FALSE, exc |-> nil, scope |-> scope0,
                       log |-> <<>>]))
    ELSE [res |-> nil, scope |-> scope0, log |-> <<>>, alias |-> FALSE,
          argNow |-> arg]

----------------------------------------------------------------------------
\* pargs

\* one iteration of the member loop of pargs.__call__
pargs_step(st, coerce, item, new) ==
    LET entry == [c |-> coerce, arg |-> item] IN
    IF IsRaise(new)
    THEN [st EXCEPT !.raised = TRUE, !.exc = new, !.log = Append(@, entry)]
    ELSE IF ok(new)
    THEN [st EXCEPT !.buf = IF new # item THEN [@ EXCEPT ![st.i + 1] = new] ELSE @,
                    !.i = @ + 1, !.log = Append(@, entry)]
    ELSE [st EXCEPT !.failed = TRUE, !.scope = item, !.log = Append(@, entry)]

pargs_body(coerce, st) ==
    pargs_step(st, coerce, st.buf[st.i + 1], Apply(coerce, st.buf[st.i + 1]))

RECURSIVE pargs_loop(_, _)
pargs_loop(coerce, st) ==
    IF ~st.raised /\ ~st.failed /\ st.i < Len(st.buf)
    THEN pargs_loop(coerce, pargs_body(coerce, st))
    ELSE st

pargs_end(st) ==
    [res |-> IF st.raised THEN st.exc
             ELSE IF st.failed THEN nil ELSE Tuple(st.buf),
     scope |-> st.scope, log |-> st.log]

\* the part of pargs.__call__ under `if res is Unset`, for the tuple `items`
pargs_members(coerce, items, scope0, log0) ==
    pargs_end(pargs_loop(coerce, [i |-> 0, buf |-> items, failed |-> FALSE,
                                  raised |-> FALSE, exc |-> nil,
                                  scope |-> scope0, log |-> log0]))

\* (a faulty variant: a rejected single argument is never unpacked)
pargs_single_strict(coerce, item, aux, scope0) ==
    LET first == [c |-> coerce, arg |-> item] IN
    IF IsRaise(aux) \/ ok(aux)
    THEN [res |-> IF IsRaise(aux) THEN aux ELSE Tuple(<<aux>>),
          scope |-> scope0, log |-> <<first>>]
    ELSE [res |-> nil, scope |-> item, log |-> <<first>>]

\* the part of pargs.__call__ under `if len(arg) == 1`; aux is coerce(item)
pargs_single(coerce, item, aux, scope0) ==
    LET first == [c |-> coerce, arg |-> item] IN
    IF IsRaise(aux) \/ ok(aux)
    THEN [res |-> IF IsRaise(aux) THEN aux ELSE Tuple(<<aux>>),
          scope |-> scope0, log |-> <<first>>]
    ELSE IF IsIterable(item)
    THEN pargs_members(coerce, Members(item), scope0, <<first>>)
    ELSE [res |-> nil, scope |-> item, log |-> <<first>>]

WithArg(out, alias, argNow) ==
    [res |-> out.res, scope |-> out.scope, log |-> out.log,
     alias |-> alias, argNow |-> argNow]

\* pargs.__call__(self, arg); the members are copied into a tuple first, and
\* a changed member is written to a list copy of it, never to arg
pargs_call(self, arg, scope0) ==
    WithArg(IF ~IsIterable(arg)
            THEN [res |-> nil, scope |-> scope0, log |-> <<>>]
            ELSE IF Len(Members(arg)) = 1
            THEN pargs_single(self.items[1], Members(arg)[1],
                              Apply(self.items[1], Members(arg)[1]), scope0)
            ELSE pargs_members(self.items[1], Members(arg), scope0, <<>>),
            FALSE, arg)

----------------------------------------------------------------------------
\* iterable

\* one iteration of the member loop of iterable.__call__; st.isArg tells that
\* `res` still is the object `arg`, so that `res[i] = new` writes into arg
iterable_step(st, member_coerce, item, new) ==
    LET entry == [c |-> member_coerce, arg |-> item]
        written == [st.buf EXCEPT ![st.i + 1] = new] IN
    IF IsRaise(new)
    THEN [st EXCEPT !.raised = TRUE, !.exc = new, !.log = Append(@, entry)]
    ELSE IF ok(new)
    THEN (IF new # item
          THEN [st EXCEPT !.buf = written,
                          !.isArg = st.isArg /\ st.mutable,
                          !.argBuf = IF st.isArg /\ st.mutable THEN written ELSE @,
                          !.retyped = st.retyped \/ ~st.mutable,
                          !.mutable = TRUE,
                          !.modified = TRUE,
                          !.i = @ + 1, !.log = Append(@, entry)]
          ELSE [st EXCEPT !.i = @ + 1, !.log = Append(@, entry)])
    ELSE [st EXCEPT !.failed = TRUE, !.scope = item, !.log = Append(@, entry)]

iterable_body(member_coerce, st) ==
    iterable_step(st, member_coerce, st.buf[st.i + 1],
                  Apply(member_coerce, st.buf[st.i + 1]))

RECURSIVE iterable_loop(_, _)
iterable_loop(member_coerce, st) ==
    IF ~st.raised /\ ~st.failed /\ st.i < Len(st.buf)
    THEN iterable_loop(member_coerce, iterable_body(member_coerce, st))
    ELSE st

\* the end of iterable.__call__ after the member loop; arg is outer_coerce(arg0)
iterable_end(arg0, arg, st) ==
    LET argAfter == IF IsMutableSequence(arg) THEN List(st.argBuf) ELSE arg
        back == IsSet(arg) /\ ~st.modified IN
    [res |-> IF st.raised THEN st.exc
             ELSE IF st.failed THEN nil
             ELSE IF back THEN arg
             ELSE IF st.retyped THEN Recast(arg.ty, st.buf)
             ELSE argAfter,
     scope |-> st.scope, log |-> st.log,
     alias |-> ~st.raised /\ ~st.failed /\ arg = arg0 /\ (back \/ ~st.retyped),
     argNow |-> IF arg = arg0 THEN argAfter ELSE arg0]

\* iterable.__call__ from `aux = outer_coerce(arg)` on
iterable_members(member_coerce, arg0, aux, scope0) ==
    IF IsRaise(aux)
    THEN [res |-> aux, scope |-> scope0, log |-> <<>>, alias |-> FALSE,
          argNow |-> arg0]
    ELSE IF ok(aux)
    THEN iterable_end(arg0, aux,
            iterable_loop(member_coerce,
                [i |-> 0, buf |-> Members(aux), argBuf |-> Members(aux),
                 isArg |-> IsSequence(aux),
                 mutable |-> ~IsSequence(aux) \/ IsMutableSequence(aux),
                 retyped |-> ~IsSequence(aux),
                 modified |-> FALSE, failed |-> FALSE, raised |-> FALSE,
                 exc |-> nil, scope |-> scope0, log |-> <<>>]))
    ELSE [res |-> nil, scope |-> arg0, log |-> <<>>, alias |-> FALSE,
          argNow |-> arg0]

\* iterable.__call__(self, arg)
iterable_call(self, arg, scope0) ==
    iterable_members(self.items[1], arg, Apply(self.items[2], arg), scope0)

----------------------------------------------------------------------------
\* mapping

\* one iteration of the loop of mapping.__call__ for the entry key: value of
\* `res`; st.pairs holds the entries of `res`, and st.isArg tells that `res`
\* still is the object `arg`
mapping_step(st, key_coercer, value_coercer, key, value, new_key, new_value) ==
    LET kentry == [c |-> key_coercer, arg |-> key]
        ventry == [c |-> value_coercer, arg |-> value]
        witness == Dict(<<Pair(key, value)>>)
        dropped == IF key # new_key THEN DictDel(st.pairs, key) ELSE st.pairs
        written == DictSet(dropped, new_key, new_value) IN
    IF IsRaise(value)
    THEN [st EXCEPT !.raised = TRUE, !.exc = value]
    ELSE IF IsRaise(new_key)
    THEN [st EXCEPT !.raised = TRUE, !.exc = new_key, !.log = Append(@, kentry)]
    ELSE IF ~ok(new_key)
    THEN [st EXCEPT !.failed = TRUE, !.scope = Tuple(<<witness, key_coercer>>),
                    !.log = Append(@, kentry)]
    ELSE IF IsRaise(new_value)
    THEN [st EXCEPT !.raised = TRUE, !.exc = new_value,
                    !.log = @ \o <<kentry, ventry>>]
    ELSE IF ~ok(new_value)
    THEN [st EXCEPT !.failed = TRUE, !.scope = Tuple(<<witness, value_coercer>>),
                    !.log = @ \o <<kentry, ventry>>]
    ELSE IF new_key # key \/ new_value # value
    THEN [st EXCEPT !.pairs = written,
                    !.isArg = st.isArg /\ st.mutable,
                    !.argPairs = IF st.isArg /\ st.mutable THEN written ELSE @,
                    !.retyped = st.retyped \/ ~st.mutable,
                    !.mutable = TRUE,
                    !.i = @ + 1, !.log = @ \o <<kentry, ventry>>]
    ELSE [st EXCEPT !.i = @ + 1, !.log = @ \o <<kentry, ventry>>]

\* `key = keys[i]; value = res[key]` and the two coercions
mapping_body(self, keys, st) ==
    mapping_step(st, self.items[1], self.items[2], keys[st.i + 1],
                 DictGet(st.pairs, keys[st.i + 1]),
                 Apply(self.items[1], keys[st.i + 1]),
                 Apply(self.items[2], DictGet(st.pairs, keys[st.i + 1])))

RECURSIVE mapping_loop(_, _, _)
mapping_loop(self, keys, st) ==
    IF ~st.raised /\ ~st.failed /\ st.i < Len(keys)
    THEN mapping_loop(self, keys, mapping_body(self, keys, st))
    ELSE st

\* the end of mapping.__call__ after the loop
mapping_end(arg, st) ==
    [res |-> IF st.raised THEN st.exc
             ELSE IF st.failed THEN nil
             ELSE IF st.retyped THEN Val(arg.ty, 0, "", st.pairs)
             ELSE Val(arg.ty, 0, "", st.argPairs),
     scope |-> st.scope, log |-> st.log,
     alias |-> ~st.raised /\ ~st.failed /\ ~st.retyped,
     argNow |-> Val(arg.ty, 0, "", st.argPairs)]

\* mapping.__call__(self, arg)
mapping_call(self, arg, scope0) ==
    IF IsMapping(arg)
    THEN mapping_end(arg, mapping_loop(self, Keys(arg.items),
                      [i |-> 0, pairs |-> arg.items, argPairs |-> arg.items,
                       isArg |-> TRUE, mutable |-> IsMutableMapping(arg),
                       retyped |-> FALSE, failed |-> FALSE, raised |-> FALSE,
                       exc |-> nil, scope |-> scope0, log |-> <<>>]))
    ELSE [res |-> nil, scope |-> Tuple(<<>>), log |-> <<>>, alias |-> FALSE,
          argNow |-> arg]

----------------------------------------------------------------------------
\* The constructors of the structural coercers

\* `x or True`
OrTrue(x) == IF Truthy(x) THEN x ELSE PyBool(TRUE)

\* a custom coercer of class cls over the vouched inner coercers
Build(cls, inner) ==
    IF \E i \in 1..Len(inner) : IsRaise(inner[i])
    THEN inner[CHOOSE i \in 1..Len(inner) :
                  /\ IsRaise(inner[i])
                  /\ \A j \in 1..(i - 1) : ~IsRaise(inner[j])]
    ELSE Coercer(cls, inner)

\* mapping.__new__(cls, key_coercer, value_coercer)
mapping_new(key_coercer, value_coercer) ==
    IF key_coercer = Unset /\ value_coercer = Unset
    THEN coercer_new(Type("Mapping"))
    ELSE Build("mapping",
               <<vouch(CoercerClass, <<OrTrue(key_coercer)>>, FALSE).res,
                 vouch(CoercerClass, <<OrTrue(value_coercer)>>, FALSE).res>>)

\* pargs.__init__(self, arg_coerce)
pargs_new(arg_coerce) ==
    Build("pargs", <<vouch(CoercerClass, <<arg_coerce>>, FALSE).res>>)

\* iterable.__init__(self, member_coerce, outer_coerce)
iterable_new(member_coerce, outer_coerce) ==
    Build("iterable",
          <<vouch(CoercerClass, <<member_coerce>>, FALSE).res,
            compose_new(<<coercer_new(outer_coerce),
                          Coercer("sized_coerce", <<>>)>>, <<>>)>>)

\* `tuple(vouch(coercer, c) for c in coercers)` of combo.__init__
combo_inner(cs) ==
    IF IsRaise(cs) THEN cs
    ELSE IF cs = nil THEN Raise("TypeError")
    ELSE Build("combo", [i \in 1..Len(cs.items) |->
                            vouch(CoercerClass, <<cs.items[i]>>, FALSE).res])

\* combo.__init__(self, *coercers)
combo_new(coercers) ==
    combo_inner(pargs_call(Coercer("pargs", <<CoercerClass>>), Tuple(coercers),
                           Unset).res)

----------------------------------------------------------------------------
\* safe

\* the instance safe.__init__ leaves, or the exception of vouch; calls lists
\* the invocations of func made while constructing
safe_made(func, v) ==
    [inst |-> IF IsRaise(v.res) THEN v.res ELSE Coercer("safe", <<v.res>>),
     calls |-> IF v.invoked THEN <<[c |-> func, arg |-> Tuple(v.called)]>>
               ELSE <<>>]

\* safe.__init__(self, func)
safe_new(func) ==
    safe_made(func, vouch(func, <<Coercer("callable_coerce", <<>>)>>, FALSE))

\* the try block of safe.__call__; r is self.inner(arg)
safe_try(self, arg, r, scope0) ==
    [res |-> IF ~IsRaise(r) /\ Truthy(r) THEN arg ELSE nil,
     scope |-> IF IsRaise(r) THEN Tuple(<<arg, r>>) ELSE scope0,
     log |-> <<[c |-> self.items[1], arg |-> arg]>>]

\* safe.__call__(self, arg)
safe_call(self, arg, scope0) ==
    safe_try(self, arg, CallValue(self.items[1], <<arg>>, FALSE), scope0)

----------------------------------------------------------------------------
\* typecast

\* tp(arg) for the builtin types int, float, str and tuple
Construct(tp, arg) ==
    CASE tp.s = "int" ->
            (CASE arg.ty \in {"int", "bool"} -> PyInt(arg.n)
               [] arg.ty = "float" -> IntOfFloat(arg)
               [] arg.ty = "str" ->
                    (IF arg.s = "1" THEN PyInt(1) ELSE Raise("ValueError"))
               [] OTHER -> Raise("TypeError"))
      [] tp.s = "float" ->
            (CASE arg.ty = "float" -> arg
               [] arg.ty \in {"int", "bool"} -> PyFloat(2 * arg.n)
               [] arg.ty = "str" -> ParseFloat(arg.s)
               [] OTHER -> Raise("TypeError"))
      [] tp.s = "str" ->
            (CASE arg.ty = "str" -> arg
               [] arg.ty = "int" /\ arg.n = 1 -> PyStr("1")
               [] OTHER -> Val("str", 0, "repr", <<arg>>))
      [] tp.s = "tuple" ->
            (IF IsIterable(arg) THEN Tuple(Members(arg)) ELSE Raise("TypeError"))
      [] tp.s = "NilClass" -> nil    \* a class whose __new__ returns nil
      [] OTHER -> Raise("TypeError")

\* typecast.__new__ is istype.__new__
typecast_new(types) ==
    IF Truthy(types)
    THEN (IF ok(types_tuple_coerce(types))
          THEN Coercer("typecast", types_tuple_coerce(types).items)
          ELSE Raise("CoercionError"))
    ELSE void

\* (a faulty variant: the first constructor that raises ends the search)
typecast_step_giving_up(self, st, tp, r) ==
    IF IsRaise(r)
    THEN [st EXCEPT !.i = Len(self.items), !.log = Append(@, [c |-> tp, arg |-> st.arg])]
    ELSE [st EXCEPT !.res = r, !.scope = tp,
                    !.log = Append(@, [c |-> tp, arg |-> st.arg])]

\* the try block of typecast.__call__; r is tp(arg) or what it raises
typecast_step(self, st, tp, r) ==
    IF IsRaise(r)
    THEN [st EXCEPT !.i = @ + 1, !.log = Append(@, [c |-> tp, arg |-> st.arg])]
    ELSE [st EXCEPT !.res = r, !.scope = tp,
                    !.log = Append(@, [c |-> tp, arg |-> st.arg])]

RECURSIVE typecast_loop(_, _)
typecast_loop(self, st) ==
    IF ~ok(st.res) /\ st.i < Len(self.items) /\ Len(st.log) <= Len(self.items)
    THEN typecast_loop(self,
            typecast_step(self, st, self.items[st.i + 1],
                          Construct(self.items[st.i + 1], st.arg)))
    ELSE st

\* the loop is followed for one attempt more than there are types: a call
\* that is still looping then has not returned
NoReturn == Val("noreturn", 0, "", <<>>)

typecast_end(self, st) ==
    IF ~ok(st.res) /\ st.i < Len(self.items) THEN [st EXCEPT !.res = NoReturn]
    ELSE st

\* typecast.__call__(self, arg)
typecast_call(self, arg, scope0) ==
    typecast_end(self,
        typecast_loop(self, [i |-> 0, arg |-> arg,
                             res |-> IF IsInstance(arg, self.items) THEN arg ELSE nil,
                             scope |-> scope0, log |-> <<>>]))

----------------------------------------------------------------------------
\* create_unique_member_coerce

\* create_unique_member_coerce(coerce, container): the wrapper keeps the
\* vouched coercer and a reference to the container (second item: what the
\* container holds now); the third item records what it held when the
\* wrapper was made
create_unique_member_coerce(coerce, container) ==
    Build("unique_member",
          <<vouch(CoercerClass, <<coerce>>, FALSE).res, container, container>>)

\* (a faulty variant: the members are those of the time of construction)
unique_member_container_made(self) == self.items[3]

\* `container` as the wrapper reads it in `res in container`
unique_member_container(self) == self.items[2]

----------------------------------------------------------------------------
\* names_coerce and the call of any coercer

\* iterable(identifier_coerce), as iterable.__init__ builds it
identifiers ==
    Coercer("iterable", <<Coercer("identifier_coerce", <<>>),
                          Coercer("sized_coerce", <<>>)>>)

names_coerce(arg) ==
    IF arg.ty = "str" \/ IsIterable(arg)
    THEN iterable_call(identifiers,
                       IF arg.ty = "str" THEN Tuple(<<arg>>)
                       ELSE Tuple(Members(arg)), Unset).res
    ELSE Raise("TypeError")

Apply(c, v) ==
    IF c.ty # "coercer" THEN CallValue(c, <<v>>, FALSE)
    ELSE CASE c.s = "identity_coerce" -> identity_coerce(v)
           [] c.s = "void_coerce" -> void_coerce(v)
           [] c.s = "type_coerce" -> type_coerce(v)
           [] c.s = "types_tuple_coerce" -> types_tuple_coerce(v)
           [] c.s = "callable_coerce" -> callable_coerce(v)
           [] c.s = "float_coerce" -> float_coerce(v)
           [] c.s = "int_coerce" -> int_coerce(v)
           [] c.s = "number_coerce" -> number_coerce(v)
           [] c.s = "positive_int_coerce" -> positive_int_coerce(v)
           [] c.s = "int_range" -> int_range_inner(c.items[1].n, c.items[2].n, v)
           [] c.s = "identifier_coerce" -> identifier_coerce(v)
           [] c.s = "full_identifier_coerce" -> full_identifier_coerce(v)
           [] c.s = "names_coerce" -> names_coerce(v)
           [] c.s = "sized_coerce" -> sized_coerce(v)
           [] c.s = "unique_member" -> unique_member_inner(c.items[1], c.items[2], v)
           [] c.s = "istype" -> (IF IsInstance(v, c.items) THEN v ELSE nil)
           [] c.s = "safe" -> safe_call(c, v, Unset).res
           [] c.s = "compose" -> compose_call(c, v, Unset).res
           [] c.s = "some" -> some_call(c, v, Unset).res
           [] c.s = "combo" -> combo_call(c, v, Unset).res
           [] c.s = "pargs" -> pargs_call(c, v, Unset).res
           [] c.s = "iterable" -> iterable_call(c, v, Unset).res
           [] c.s = "mapping" -> mapping_call(c, v, Unset).res
           [] OTHER -> CallFunction(c, <<v>>, FALSE)

----------------------------------------------------------------------------
\* Bounds and the inputs drawn from them

MaxCoercers == 2
MaxLen == 2
MaxArgs == 2

Seqs(S, lo, hi) == UNION {[1..k -> S] : k \in lo..hi}

Scalars ==
    {PyInt(0), PyInt(1), PyInt(-1), PyFloat(0), PyFloat(2), PyFloat(3), Inf,
     PyComplex(2, "0"), PyComplex(2, "1"),
     PyStr(""), PyStr("1"), PyStr("1.5"), PyStr("inf"), PyStr("x"), PyStr("a.b"),
     nil, t, None, Object}

MemberValues == {PyInt(1), PyStr("1"), PyStr("x")}

Distinct(items) ==
    \A i, j \in 1..Len(items) : i # j => ~PyEq(items[i], items[j])

Containers ==
    {Tuple(xs) : xs \in Seqs(MemberValues, 0, MaxLen)}
    \cup {List(xs) : xs \in Seqs(MemberValues, 0, MaxLen)}
    \cup {SetOf(xs) : xs \in {ys \in Seqs(MemberValues, 0, MaxLen) : Distinct(ys)}}
    \cup {Generator(xs) : xs \in Seqs(MemberValues, 1, 1)}

Nested ==
    {Tuple(<<c>>) : c \in {Tuple(xs) : xs \in Seqs(MemberValues, 1, MaxLen)}}
    \cup {List(<<List(<<PyInt(1)>>)>>)}

KeyValues == {PyStr("1"), PyInt(1), PyStr("x")}
EntryValues == {PyStr("1"), PyStr("x")}
Entries == {Pair(k, v) : k \in KeyValues, v \in EntryValues}

DistinctKeys(pairs) == Distinct(Keys(pairs))

Dicts == {Dict(ps) : ps \in {qs \in Seqs(Entries, 0, MaxLen) : DistinctKeys(qs)}}
Proxies == {MappingProxy(ps) : ps \in Seqs(Entries, 0, 1)}

prim(name) == Coercer(name, <<>>)

Primitives ==
    {prim("identity_coerce"), prim("void_coerce"), prim("type_coerce"),
     prim("types_tuple_coerce"), prim("callable_coerce"), prim("float_coerce"),
     prim("int_coerce"), prim("number_coerce"), prim("positive_int_coerce"),
     Coercer("int_range", <<PyInt(0), PyInt(1)>>),
     prim("identifier_coerce"), prim("full_identifier_coerce"),
     prim("names_coerce"), prim("sized_coerce"),
     Coercer("unique_member", <<prim("int_coerce"), SetOf(<<PyInt(1)>>)>>),
     Coercer("unique_member", <<prim("identity_coerce"), List(<<>>)>>)}

PrimitiveInputs ==
    Scalars
    \cup {Type("int"), Tuple(<<Type("int"), Type("str")>>), prim("int_coerce"),
          Tuple(<<>>), List(<<>>), List(<<PyInt(1)>>), Tuple(<<PyStr("x")>>),
          List(<<PyStr("x"), PyStr("1")>>), SetOf(<<PyStr("x")>>),
          Generator(<<PyStr("x")>>), Dict(<<Pair(PyStr("x"), PyInt(1))>>)}

ChainPool ==
    {prim("int_coerce"), prim("float_coerce"), prim("positive_int_coerce"),
     prim("identifier_coerce"), prim("void_coerce")}

MemberCoercers ==
    {prim("int_coerce"), prim("identifier_coerce"), prim("identity_coerce")}

KeyCoercers == {prim("int_coerce"), prim("identity_coerce")}
ValueCoercers == {prim("float_coerce"), prim("identity_coerce")}

Sources ==
    {t, nil, None, PyBool(TRUE), prim("int_coerce"), Function("same"),
     Type("int"), Tuple(<<Type("int"), Type("str")>>), PyStr("x")}

VouchFns ==
    {prim("int_coerce"), prim("identity_coerce"), prim("void_coerce"), t, nil,
     Function("noargs"), Function("nothing"), Function("collect")}

VouchArgs == {nil, PyInt(0), PyStr("1"), PyStr("x"), Tuple(<<>>)}

SafeFuncs ==
    {Function("positive"), Function("is_str"), Function("same"),
     Function("to_nil"), Function("fail"), prim("int_coerce")}

----------------------------------------------------------------------------
\* The state: the coercer instance at hand, its scope field and the record
\* of the last operation

Rec(op, self, arg, out) ==
    [op |-> op, self |-> self, arg |-> arg, res |-> out.res, log |-> out.log,
     alias |-> out.alias, argNow |-> out.argNow, extra |-> out.extra]

Plain(res, extra) ==
    [res |-> res, log |-> <<>>, alias |-> FALSE, argNow |-> Unset, extra |-> extra]

Idle == Rec("idle", Unset, Unset, Plain(Unset, Unset))

\* the invocations that may be in progress at once on the instance
Threads == {1, 2}

\* an invocation that has not begun
race_idle ==
    [pc |-> "idle", arg |-> Unset, aux |-> Unset, st |-> Unset, res |-> Unset,
     prior |-> Unset]

Quiet == \A k \in Threads : run[k].pc = "idle"

Init ==
    /\ inst = Unset
    /\ scope = Unset
    /\ last = Idle
    /\ run = [k \in Threads |-> race_idle]

\* t(x) or nil(x); the module-level calls are taken while no instance is held
LogicalCall ==
    /\ inst = Unset
    /\ \E self \in {t, nil}, x \in PrimitiveInputs :
        /\ last' = Rec("logical", self, x, Plain(logical_call(self, x), Unset))
        /\ UNCHANGED <<inst, scope, run>>

\* coercer(source)(v)
FactoryCall ==
    /\ inst = Unset
    /\ \E source \in Sources, v \in Scalars \cup {Tuple(<<>>), List(<<>>)} :
        /\ last' = Rec("coercer", source, v,
                       Plain(Apply(coercer_new(source), v), coercer_new(source)))
        /\ UNCHANGED <<inst, scope, run>>

VouchRec(fn, args, kw, out) ==
    [op |-> "vouch", self |-> fn, arg |-> Tuple(args), res |-> out.res,
     log |-> IF out.invoked THEN <<[c |-> fn, arg |-> Tuple(out.called)]>>
             ELSE <<>>,
     alias |-> FALSE, argNow |-> Unset, extra |-> PyBool(kw)]

\* vouch(fn, *args, **kwargs)
VouchCall ==
    /\ inst = Unset
    /\ \E fn \in VouchFns, args \in Seqs(VouchArgs, 0, MaxArgs), kw \in BOOLEAN :
        /\ last' = VouchRec(fn, args, kw, vouch(fn, args, kw))
        /\ UNCHANGED <<inst, scope, run>>

\* c(v) for a primitive coercer c
PrimitiveCall ==
    /\ inst = Unset
    /\ \E c \in Primitives, v \in PrimitiveInputs :
        /\ last' = Rec("primitive", c, v, Plain(Apply(c, v), Unset))
        /\ UNCHANGED <<inst, scope, run>>

RangeBounds == {PyInt(-1), PyInt(0), PyInt(1), PyInt(2), PyStr("x")}

\* create_int_range_coerce(min, max), and a call of the coercer it returns
RangeCall ==
    /\ inst = Unset
    /\ \E min \in RangeBounds, max \in RangeBounds, v \in PrimitiveInputs :
        /\ last' = Rec("int_range", Tuple(<<min, max>>), v,
                       Plain(IF IsRaise(create_int_range_coerce(min, max))
                             THEN Unset
                             ELSE Apply(create_int_range_coerce(min, max), v),
                             create_int_range_coerce(min, max)))
        /\ UNCHANGED <<inst, scope, run>>

\* the instance is dropped
Discard ==
    /\ inst # Unset
    /\ Quiet
    /\ inst' = Unset
    /\ scope' = Unset
    /\ last' = Idle
    /\ UNCHANGED run

New(op, arg, made, calls) ==
    /\ inst = Unset
    /\ inst' = IF IsRaise(made) THEN Unset ELSE made
    /\ scope' = Unset
    /\ UNCHANGED run
    /\ last' = [Rec(op, made, arg, Plain(made, Unset)) EXCEPT !.log = calls]

NewOf(op, arg, out) == New(op, arg, out.inst, out.calls)

NewCompose ==
    \E cs \in Seqs(ChainPool, 2, MaxCoercers) :
        New("compose_new", Tuple(cs), compose_new(cs, <<>>), <<>>)

NewSome ==
    \E cs \in Seqs(ChainPool, 2, MaxCoercers) :
        New("some_new", Tuple(cs), some_new(cs), <<>>)

NewCombo ==
    \E cs \in Seqs(MemberCoercers, 1, MaxCoercers) :
        New("combo_new", Tuple(cs), combo_new(cs), <<>>)

NewPargs ==
    \E c \in MemberCoercers : New("pargs_new", c, pargs_new(c), <<>>)

NewIterable ==
    \E c \in MemberCoercers :
        New("iterable_new", c, iterable_new(c, PyBool(TRUE)), <<>>)

NewMapping ==
    \E kc \in KeyCoercers, vc \in ValueCoercers :
        New("mapping_new", Tuple(<<kc, vc>>), mapping_new(kc, vc), <<>>)

NewSafe ==
    \E f \in SafeFuncs : NewOf("safe_new", f, safe_new(f))

\* (a faulty variant: the call also drops the first inner coercer)
Call_consuming(cls, arg, out) ==
    /\ scope' = out.scope
    /\ last' = [op |-> cls, self |-> inst, arg |-> arg, res |-> out.res,
                log |-> out.log, alias |-> out.alias, argNow |-> out.argNow,
                extra |-> scope]
    /\ inst' = [inst EXCEPT !.items = Tail(@)]
    /\ UNCHANGED run

\* a call of the instance: scope is written, the record tells the rest
Call(cls, arg, out) ==
    /\ Quiet
    /\ scope' = out.scope
    /\ last' = [op |-> cls, self |-> inst, arg |-> arg, res |-> out.res,
                log |-> out.log, alias |-> out.alias, argNow |-> out.argNow,
                extra |-> scope]
    /\ UNCHANGED <<inst, run>>

IsInst(cls) == inst.ty = "coercer" /\ inst.s = cls

ComposeCall ==
    /\ IsInst("compose")
    /\ \E v \in Scalars :
        Call("compose", v, WithArg(compose_call(inst, v, scope), FALSE, v))

SomeCall ==
    /\ IsInst("some")
    /\ \E v \in Scalars :
        Call("some", v, WithArg(some_call(inst, v, scope), FALSE, v))

SafeCall ==
    /\ IsInst("safe")
    /\ \E v \in Scalars :
        Call("safe", v, WithArg(safe_call(inst, v, scope), FALSE, v))

StructInputs ==
    Containers \cup Nested
    \cup {PyInt(1), Object, PyStr("x"), PyStr("1"), PyStr("1.5"),
          Dict(<<Pair(PyStr("x"), PyInt(1))>>)}

MappingInputs == Dicts \cup Proxies \cup {List(<<>>), PyInt(1)}

ComboCall ==
    /\ IsInst("combo")
    /\ \E v \in StructInputs : Call("combo", v, combo_call(inst, v, scope))

PargsCall ==
    /\ IsInst("pargs")
    /\ \E v \in StructInputs : Call("pargs", v, pargs_call(inst, v, scope))

IterableCall ==
    /\ IsInst("iterable")
    /\ \E v \in StructInputs : Call("iterable", v, iterable_call(inst, v, scope))

MappingCall ==
    /\ IsInst("mapping")
    /\ \E v \in MappingInputs : Call("mapping", v, mapping_call(inst, v, scope))

UniqueContainers == {List(<<>>), List(<<PyInt(1)>>), SetOf(<<>>)}

UniqueInputs ==
    {PyInt(1), PyStr("1"), PyStr("x"), PyFloat(2), PyFloat(3), nil,
     List(<<PyInt(1)>>)}

NewUnique ==
    \E c \in {prim("int_coerce"), prim("identity_coerce")},
       K \in UniqueContainers :
        New("unique_new", K, create_unique_member_coerce(c, K), <<>>)

\* the owner of the container adds a member to it
ContainerAdd ==
    /\ IsInst("unique_member")
    /\ Len(inst.items[2].items) < MaxLen
    /\ \E x \in MemberValues :
        /\ inst' = [inst EXCEPT !.items[2].items =
                        IF IsSet(inst.items[2]) /\ Contains(@, x)
                        THEN @ ELSE Append(@, x)]
        /\ last' = Rec("container_add", inst, x, Plain(None, Unset))
        /\ UNCHANGED <<scope, run>>

\* a call of the unique-member wrapper
UniqueCall ==
    /\ IsInst("unique_member")
    /\ \E x \in UniqueInputs :
        /\ last' = Rec("unique", inst, x,
                       Plain(unique_member_inner(inst.items[1],
                                 unique_member_container(inst), x), Unset))
        /\ UNCHANGED <<inst, scope, run>>

CastTypes == {Type("int"), Type("float"), Type("str"), Type("tuple")}

NewTypecast ==
    \E ts \in Seqs(CastTypes, 1, MaxCoercers) :
        New("typecast_new", Tuple(ts), typecast_new(Tuple(ts)), <<>>)

\* typecast(types) where a class may return nil from its constructor
NewTypecastOf ==
    \E ts \in Seqs(CastTypes \cup {Type("NilClass")}, 1, MaxCoercers) :
        New("typecast_of", Tuple(ts), typecast_new(Tuple(ts)), <<>>)

TypecastCall ==
    /\ IsInst("typecast")
    /\ \E v \in (Scalars \ {nil, t}) \cup {Tuple(<<PyInt(1)>>)} :
        Call("typecast", v, WithArg(typecast_call(inst, v, scope), FALSE, v))

\* the keyword arguments of a construction, by the names given
Options(kw) ==
    CASE kw = "default" -> [default |-> prim("float_coerce")]
      [] kw = "strict" -> [strict |-> t]
      [] kw = "default, strict" -> [default |-> prim("float_coerce"), strict |-> t]
      [] OTHER -> <<>>

OptionNames == {"", "default", "strict", "default, strict"}

NewPool ==
    {identity, void, prim("int_coerce"), prim("float_coerce"),
     Tuple(<<prim("int_coerce")>>), List(<<identity, void>>),
     Coercer("compose", <<prim("int_coerce"), prim("float_coerce")>>),
     Coercer("some", <<prim("int_coerce"), prim("identifier_coerce")>>)}

\* a construction whose record keeps the names of the keywords given
NewWith(op, cs, kw, made) ==
    /\ inst = Unset
    /\ inst' = IF IsRaise(made) THEN Unset ELSE made
    /\ scope' = Unset
    /\ last' = Rec(op, made, Tuple(cs), Plain(made, PyStr(kw)))
    /\ UNCHANGED run

\* compose(*coercers, **options) for any number of coercers
NewComposeWith ==
    \E cs \in Seqs(NewPool, 0, MaxCoercers), kw \in OptionNames :
        NewWith("compose_with", cs, kw, compose_new(cs, Options(kw)))

\* some(*coercers) for any number of coercers
NewSomeOf ==
    \E cs \in Seqs(NewPool, 0, MaxCoercers) :
        NewWith("some_of", cs, "", some_new(cs))

----------------------------------------------------------------------------
\* Invocations of one compose or iterable instance in progress at once; a
\* step of an invocation is what it does up to and including one write of
\* self.scope, its locals are its own

RaceInputs ==
    {PyInt(1), PyStr("x"), List(<<PyStr("1"), PyStr("x")>>), Tuple(<<PyStr("1")>>)}

\* the invocation up to its loop; aux is outer_coerce(arg) for an iterable
race_begin(self, arg, aux, prior, scope0) ==
    LET th == [race_idle EXCEPT !.arg = arg, !.aux = aux, !.prior = prior] IN
    CASE self.s = "compose" ->
            [th EXCEPT !.pc = "loop",
                       !.st = [i |-> 0, res |-> arg, ok |-> TRUE, raised |-> FALSE,
                               scope |-> scope0, log |-> <<>>]]
      [] IsRaise(aux) ->
            [th EXCEPT !.pc = "done", !.res = aux, !.st = [scope |-> scope0]]
      [] ok(aux) ->
            [th EXCEPT !.pc = "loop",
                       !.st = [i |-> 0, buf |-> Members(aux), argBuf |-> Members(aux),
                               isArg |-> IsSequence(aux),
                               mutable |-> ~IsSequence(aux) \/ IsMutableSequence(aux),
                               retyped |-> ~IsSequence(aux),
                               modified |-> FALSE, failed |-> FALSE,
                               raised |-> FALSE, exc |-> nil, scope |-> scope0,
                               log |-> <<>>]]
      [] OTHER ->
            [th EXCEPT !.pc = "done", !.res = nil, !.st = [scope |-> arg]]

\* (a faulty variant: an invocation that finds scope written since the
\* invocations began returns that scope)
race_step_sharing(self, th, scope0) ==
    [th EXCEPT !.pc = "done",
               !.res = IF scope0 # th.prior THEN scope0
                       ELSE IF self.s = "compose"
                       THEN compose_call(self, th.arg, scope0).res
                       ELSE iterable_call(self, th.arg, scope0).res,
               !.st = [scope |-> scope0]]

\* one iteration of the invocation's loop, or its return when the loop ends
race_step(self, th, scope0) ==
    IF self.s = "compose"
    THEN (IF ~th.st.raised /\ th.st.ok /\ th.st.i < Len(self.items)
          THEN [th EXCEPT !.st = compose_body(self, [th.st EXCEPT !.scope = scope0])]
          ELSE [th EXCEPT !.pc = "done", !.res = th.st.res,
                          !.st = [scope |-> scope0]])
    ELSE (IF ~th.st.raised /\ ~th.st.failed /\ th.st.i < Len(th.st.buf)
          THEN [th EXCEPT !.st = iterable_body(self.items[1],
                                               [th.st EXCEPT !.scope = scope0])]
          ELSE [th EXCEPT !.pc = "done",
                          !.res = iterable_end(th.arg, th.aux, th.st).res,
                          !.st = [scope |-> scope0]])

\* an invocation begins; it notes the scope the instance held when no
\* invocation was in progress
RaceBegin ==
    /\ IsInst("compose") \/ IsInst("iterable")
    /\ \E k \in Threads, v \in RaceInputs :
        /\ run[k].pc = "idle"
        /\ run' = [run EXCEPT ![k] =
                      race_begin(inst, v,
                                 IF IsInst("iterable") THEN Apply(inst.items[2], v)
                                 ELSE v,
                                 IF Quiet THEN scope ELSE run[3 - k].prior, scope)]
        /\ scope' = run'[k].st.scope
        /\ last' = [Idle EXCEPT !.op = "race"]
        /\ UNCHANGED inst

\* an invocation in progress takes its next step
RaceStep ==
    \E k \in Threads :
        /\ run[k].pc = "loop"
        /\ run' = [run EXCEPT ![k] = race_step(inst, run[k], scope)]
        /\ scope' = run'[k].st.scope
        /\ UNCHANGED <<inst, last>>

\* both invocations have returned
RaceJoin ==
    /\ \A k \in Threads : run[k].pc = "done"
    /\ run' = [k \in Threads |-> race_idle]
    /\ UNCHANGED <<inst, scope, last>>

\* the ways of writing a chain of the three coercers A, B and C of class cls
NestedShapes == {"left", "right", "sequences", "neutral"}

Nesting(cls, shape, A, B, C) ==
    CASE shape = "left" -> <<Coercer(cls, <<A, B>>), C>>
      [] shape = "right" -> <<A, Coercer(cls, <<B, C>>)>>
      [] shape = "sequences" -> <<Tuple(<<A, List(<<B, C>>)>>)>>
      [] OTHER -> <<A, IF cls = "compose" THEN identity ELSE void, B, C>>

\* the coercers a chain of class cls is written with: plain ones and a
\* composite of the other class
Leaves(cls) ==
    {prim("int_coerce"), prim("float_coerce"), prim("identifier_coerce"),
     Coercer(IF cls = "compose" THEN "some" ELSE "compose",
             <<prim("int_coerce"), prim("identifier_coerce")>>)}

\* compose(...) or some(...) written with nested instances and sequences
NewNested ==
    \E cls \in {"compose", "some"}, shape \in NestedShapes :
        \E A \in Leaves(cls), B \in Leaves(cls), C \in Leaves(cls) :
            NewWith(cls \o "_nested", <<A, B, C>>, shape,
                    IF cls = "compose"
                    THEN compose_new(Nesting(cls, shape, A, B, C), <<>>)
                    ELSE some_new(Nesting(cls, shape, A, B, C)))

\* the sources coercer(source) accepts
FactorySources ==
    {t, nil, None, Type("int"), Tuple(<<Type("int"), Type("str")>>),
     Function("same"), prim("int_coerce"), prim("float_coerce")}

\* compose(s1, .., sn) or some(s1, .., sn) for sources of coercers
NewFromSources ==
    \E cls \in {"compose", "some"}, ss \in Seqs(FactorySources, 1, MaxCoercers) :
        NewWith(cls \o "_from", ss, "",
                IF cls = "compose" THEN compose_new(ss, <<>>) ELSE some_new(ss))

NextLogic == LogicalCall \/ FactoryCall \/ VouchCall \/ PrimitiveCall

NextRange == RangeCall

NextBool == NewCompose \/ NewSome \/ ComposeCall \/ SomeCall \/ Discard

NextStruct ==
    \/ NewCombo \/ NewPargs \/ NewIterable \/ NewMapping
    \/ ComboCall \/ PargsCall \/ IterableCall \/ MappingCall
    \/ Discard

NextSafe == NewSafe \/ SafeCall \/ Discard

NextUnique == NewUnique \/ ContainerAdd \/ UniqueCall \/ Discard

NextCast == NewTypecast \/ TypecastCall \/ Discard

NextNew ==
    NewComposeWith \/ NewSomeOf \/ NewNested \/ NewFromSources \/ Discard

NextLoop == NewTypecastOf \/ TypecastCall \/ Discard

NextRace ==
    NewCompose \/ NewIterable \/ RaceBegin \/ RaceStep \/ RaceJoin \/ Discard

Next == NextLogic \/ NextRange \/ NextBool \/ NextStruct \/ NextSafe \/ NextUnique
        \/ NextCast \/ NextNew \/ NextLoop \/ NextRace

SpecLogic == Init /\ [][NextLogic]_vars
SpecRange == Init /\ [][NextRange]_vars
SpecBool == Init /\ [][NextBool]_vars
SpecStruct == Init /\ [][NextStruct]_vars
SpecSafe == Init /\ [][NextSafe]_vars
SpecUnique == Init /\ [][NextUnique]_vars
SpecCast == Init /\ [][NextCast]_vars
SpecNew == Init /\ [][NextNew]_vars
SpecRace == Init /\ [][NextRace]_vars
\* the calls of every class of composite coercers
NextCalls == NextBool \/ NextStruct \/ NextSafe \/ NextCast \/ NextLoop
SpecCalls == Init /\ [][NextCalls]_vars
Spec == Init /\ [][Next]_vars

----------------------------------------------------------------------------
\* The claims

\* the first index in 1..n at which P holds, n + 1 if there is none
First(n, P(_)) ==
    IF \E j \in 1..n : P(j)
    THEN CHOOSE j \in 1..n : P(j) /\ \A i \in 1..(j - 1) : ~P(i)
    ELSE n + 1

Min(a, b) == IF a < b THEN a ELSE b

C2_SomeFirstSuccess ==
    last.op = "some" =>
        LET cs == last.self.items
            n == Len(cs)
            Wins(j) == Apply(cs[j], last.arg) # nil
            k == First(n, Wins) IN
        /\ n >= 2
        /\ last.log = [j \in 1..Min(k, n) |-> [c |-> cs[j], arg |-> last.arg]]
        /\ last.res = IF k <= n THEN Apply(cs[k], last.arg) ELSE nil
        /\ last.res = nil <=> \A j \in 1..n : Apply(cs[j], last.arg) = nil

\* the first coercer failed, the second succeeded with a changed value
C2_Witness ==
    /\ last.op = "some"
    /\ Len(last.log) = 2
    /\ last.res \notin {nil, last.arg}
    /\ ~IsRaise(last.res)
    /\ Apply(last.self.items[1], last.arg) = nil

\* C3: a call of combo, pargs, iterable or mapping leaves the contents of the
\* container it is given as they were.
C3_InputUnchanged ==
    last.op \in {"combo", "pargs", "iterable", "mapping"} =>
        last.argNow = last.arg

\* C4: coercer(t) returns every value itself, coercer(nil) and coercer(None)
\* return nil for every value.
C4_FactoryIdentityVoid ==
    last.op = "coercer" =>
        /\ last.self = t => last.extra = identity /\ last.res = last.arg
        /\ last.self \in {nil, None} => last.extra = void /\ last.res = nil

\* the identity coercer of the factory returns the falsy 0
C4_Witness ==
    /\ last.op = "coercer"
    /\ last.self = t
    /\ last.arg = PyInt(0)
    /\ last.res = PyInt(0)

\* C5: t(x) is x when x is truthy or nil and t otherwise, so it is logically
\* false exactly when x is nil; nil(x) is t when x is nil and nil otherwise.
C5_LogicalTests ==
    last.op = "logical" =>
        /\ last.self = t =>
            /\ last.res = IF Truthy(last.arg) \/ last.arg = nil
                          THEN last.arg ELSE t
            /\ ~Truthy(last.res) <=> last.arg = nil
        /\ last.self = nil =>
            last.res = IF last.arg = nil THEN t ELSE nil

\* t(x) for the falsy x = 0 answers t
C5_Witness ==
    /\ last.op = "logical"
    /\ last.self = t
    /\ last.arg = PyInt(0)
    /\ last.res = t

\* C6: mapping(kc, vc) returns nil whenever some entry of its argument has a
\* key kc rejects or a value vc rejects.
C6_InvalidEntryRejected ==
    (last.op = "mapping" /\ IsMapping(last.arg)) =>
        ((\E i \in 1..Len(last.arg.items) :
             \/ Apply(last.self.items[1], last.arg.items[i].items[1]) = nil
             \/ Apply(last.self.items[2], last.arg.items[i].items[2]) = nil)
         => last.res = nil)

\* what vouch owes for the positional arguments args: fn is called on them,
\* its result comes back unchanged unless it is nil, and a coercion error is
\* reported exactly when it is nil
VouchContract ==
    LET args == last.arg.items
        r == CallValue(last.self, args, Truthy(last.extra)) IN
    /\ last.log = <<[c |-> last.self, arg |-> last.arg]>>
    /\ (r # nil /\ ~IsRaise(r)) => last.res = r
    /\ last.res = Raise("CoercionError") <=> r = nil

\* C7 as stated: vouch with at least one argument calls fn on those arguments,
\* returns its result unchanged when that is not nil, and reports a coercion
\* error exactly when it is nil.
C7_VouchCallsOnArgs ==
    (last.op = "vouch" /\ Len(last.arg.items) >= 1) => VouchContract

\* C7 amended: the same, for arguments other than a single positional nil.
C7_VouchExceptSingleNil ==
    (last.op = "vouch" /\ Len(last.arg.items) >= 1 /\ last.arg.items # <<nil>>)
        => VouchContract

\* vouch hands back the falsy result 0
C7_Witness ==
    /\ last.op = "vouch"
    /\ last.arg = Tuple(<<PyInt(0)>>)
    /\ last.self = prim("int_coerce")
    /\ last.res = PyInt(0)

\* C8: a primitive coercer or a unique-member wrapper returns a value or nil
\* for every input; it never raises.
C8_PrimitivesNeverRaise ==
    last.op = "primitive" => ~IsRaise(last.res)

\* C9: safe(f) keeps f itself and does not invoke it when constructed;
\* safe(f)(v) is v when f(v) is truthy, nil when it is falsy, and nil with
\* scope = (v, exception) when f(v) raises.
C9_SafeWrapsAndCatches ==
    last.op = "safe_new" =>
        /\ last.log = <<>>
        /\ last.res = Coercer("safe", <<last.arg>>)
        /\ \A v \in Scalars :
            LET r == CallValue(last.arg, <<v>>, FALSE)
                out == safe_call(last.res, v, Unset) IN
            /\ out.res = IF ~IsRaise(r) /\ Truthy(r) THEN v ELSE nil
            /\ out.scope = IF IsRaise(r) THEN Tuple(<<v, r>>) ELSE Unset

\* C10: compose(f1, ..., fn)(arg) is f1(...(fn(arg))...): the last coercer
\* given is applied first, the first one gives the result.
C10_ComposeRightToLeft ==
    last.op = "compose" =>
        LET cs == last.self.items
            n == Len(cs)
            g[j \in 0..n] ==
                IF j = 0 THEN last.arg
                ELSE IF IsRaise(g[j - 1]) THEN g[j - 1]
                ELSE Apply(cs[n + 1 - j], g[j - 1]) IN
        last.res = g[n]

\* C11: combo(c1..cn) on an iterable x1..xm pairs ci with xi; when every pair
\* up to min(n, m) coerces the result is the sequence of the min(n, m) values
\* ci(xi); otherwise it is nil at the first failing pair (xj, cj), which goes
\* to scope, and no later coercer is invoked; a non-iterable gives nil.
C11_ComboLockstep ==
    last.op = "combo" =>
        IF ~IsIterable(last.arg) THEN last.res = nil /\ last.log = <<>>
        ELSE LET cs == last.self.items
                 xs == Members(last.arg)
                 k == Min(Len(cs), Len(xs))
                 Fails(i) == Apply(cs[i], xs[i]) = nil
                 j == First(k, Fails) IN
             /\ last.log = [i \in 1..Min(j, k) |-> [c |-> cs[i], arg |-> xs[i]]]
             /\ IF j > k
                THEN Members(last.res) = [i \in 1..k |-> Apply(cs[i], xs[i])]
                ELSE last.res = nil /\ scope = Tuple(<<xs[j], cs[j]>>)

\* C12 as stated: a combo of two coercers on a one-element input returns a
\* result of length 0.
C12_ComboShortInputEmpty ==
    (last.op = "combo" /\ Len(last.self.items) = 2 /\ IsIterable(last.arg)
     /\ Len(Members(last.arg)) = 1)
        => (last.res # nil /\ Len(Members(last.res)) = 0)

\* C12 amended: a combo of two coercers on a one-element list or tuple whose
\* element the first coercer accepts returns a list or tuple of length 1 that
\* holds c1(x1); the second coercer is not invoked.
C12_ComboShortInputOne ==
    (last.op = "combo" /\ Len(last.self.items) = 2
     /\ last.arg.ty \in {"list", "tuple"} /\ Len(last.arg.items) = 1
     /\ Apply(last.self.items[1], last.arg.items[1]) # nil)
        => /\ last.res.ty = last.arg.ty
           /\ last.res.items = <<Apply(last.self.items[1], last.arg.items[1])>>
           /\ Len(last.log) = 1

\* combo(int_coerce, identifier_coerce)(("1",)) gave (1,)
C12_Witness ==
    /\ last.op = "combo"
    /\ last.self.items = <<prim("int_coerce"), prim("identifier_coerce")>>
    /\ last.arg = Tuple(<<PyStr("1")>>)
    /\ last.res = Tuple(<<PyInt(1)>>)


\* the member-wise coercion of the members xs by c: nil as soon as one member
\* is rejected, the tuple of the coerced members otherwise
ElementWise(c, xs) ==
    IF \E i \in 1..Len(xs) : Apply(c, xs[i]) = nil THEN nil
    ELSE Tuple([i \in 1..Len(xs) |-> Apply(c, xs[i])])

C14_IterableMembers ==
    (last.op = "iterable" /\ Apply(last.self.items[2], last.arg) # nil) =>
        LET mc == last.self.items[1]
            xs == Members(Apply(last.self.items[2], last.arg))
            n == Len(xs)
            Fails(i) == Apply(mc, xs[i]) = nil
            j == First(n, Fails)
            want == [i \in 1..n |-> Apply(mc, xs[i])] IN
        /\ last.log = [i \in 1..Min(j, n) |-> [c |-> mc, arg |-> xs[i]]]
        /\ IF j > n
           THEN IF IsSet(last.arg)
                THEN /\ \A i \in 1..n : Contains(Members(last.res), want[i])
                     /\ \A i \in 1..Len(Members(last.res)) :
                            Contains(want, Members(last.res)[i])
                ELSE Members(last.res) = want
           ELSE last.res = nil /\ scope = xs[j]


\* C15: mapping(kc, vc) on a mapping in which every key and value coerces and
\* no coerced key equals another entry's original or coerced key returns
\* exactly the entries kc(k): vc(v), one for each entry k: v of the argument,
\* and passes each value through vc exactly once.
C15_MappingEntries ==
    LET kc == last.self.items[1]
        vc == last.self.items[2]
        es == last.arg.items
        n == Len(es)
        K(i) == es[i].items[1]
        V(i) == es[i].items[2] IN
    (/\ last.op = "mapping" /\ IsMapping(last.arg)
     /\ \A i \in 1..n : Apply(kc, K(i)) # nil /\ Apply(vc, V(i)) # nil
     /\ \A i, j \in 1..n :
            i # j => /\ ~PyEq(Apply(kc, K(i)), K(j))
                     /\ ~PyEq(Apply(kc, K(i)), Apply(kc, K(j))))
        => /\ last.res.ty = last.arg.ty
           /\ Len(last.res.items) = n
           /\ \A i \in 1..n :
                \E p \in 1..n :
                    last.res.items[p] = Pair(Apply(kc, K(i)), Apply(vc, V(i)))
           /\ last.log = [q \in 1..(2 * n) |->
                            IF q % 2 = 1
                            THEN [c |-> kc, arg |-> K((q + 1) \div 2)]
                            ELSE [c |-> vc, arg |-> V(q \div 2)]]

\* mapping(int_coerce, float_coerce)({"1": "1"}) gave {1: 1.0}
C15_Witness ==
    /\ last.op = "mapping"
    /\ last.self.items = <<prim("int_coerce"), prim("float_coerce")>>
    /\ last.arg = Dict(<<Pair(PyStr("1"), PyStr("1"))>>)
    /\ last.res = Dict(<<Pair(PyInt(1), PyFloat(2))>>)


C17_TypecastFirstConstructor ==
    last.op = "typecast" =>
        LET Ts == last.self.items
            n == Len(Ts)
            Works(i) == ~IsRaise(Construct(Ts[i], last.arg))
            k == First(n, Works) IN
        IF IsInstance(last.arg, Ts)
        THEN last.res = last.arg /\ last.log = <<>>
        ELSE /\ last.res = IF k <= n THEN Construct(Ts[k], last.arg) ELSE nil
             /\ last.log = [i \in 1..Min(k, n) |-> [c |-> Ts[i], arg |-> last.arg]]

\* typecast((int, float))("1.5"): int raised, float gave 1.5
C17_Witness ==
    /\ last.op = "typecast"
    /\ last.self.items = <<Type("int"), Type("float")>>
    /\ last.arg = PyStr("1.5")
    /\ last.res = PyFloat(3)
    /\ Len(last.log) = 2


\* the coercers that survive in a construction of class cls from the
\* arguments cs: nested lists, tuples and instances of cls are opened (their
\* members are plain coercers here) and the neutral coercer is dropped
Survivors(cls, cs, neutral) ==
    LET Open(x) == IF x.ty \in {"tuple", "list"} \/ (x.ty = "coercer" /\ x.s = cls)
                   THEN x.items ELSE <<x>>
        flat[i \in 0..Len(cs)] == IF i = 0 THEN <<>> ELSE flat[i - 1] \o Open(cs[i])
        Keep(c) == c # neutral IN
    SelectSeq(flat[Len(cs)], Keep)

\* C18: with no surviving coercer compose returns the identity coercer (or
\* the default given) and some returns the void coercer; with exactly one
\* survivor A both return A itself, which coerces every value as A does.
C18_NeutralAndSingle ==
    /\ (last.op = "compose_with" /\ last.extra \in {PyStr(""), PyStr("default")}) =>
        LET surv == Survivors("compose", last.arg.items, identity) IN
        /\ Len(surv) = 0 =>
            last.res = IF last.extra = PyStr("default")
                       THEN Options("default").default ELSE identity
        /\ Len(surv) = 1 =>
            /\ last.res = surv[1]
            /\ \A v \in Scalars : Apply(last.res, v) = Apply(surv[1], v)
    /\ last.op = "some_of" =>
        LET surv == Survivors("some", last.arg.items, void) IN
        /\ Len(surv) = 0 => last.res = void
        /\ Len(surv) = 1 =>
            /\ last.res = surv[1]
            /\ \A v \in Scalars : Apply(last.res, v) = Apply(surv[1], v)

\* compose((int_coerce,), identity_coerce) gave int_coerce itself
C18_Witness ==
    /\ last.op = "compose_with"
    /\ last.arg = Tuple(<<Tuple(<<prim("int_coerce")>>), identity>>)
    /\ last.extra = PyStr("")
    /\ last.res = prim("int_coerce")

\* C19: constructing compose with a keyword other than default raises a
\* configuration error, however many coercers are given.
C19_UnknownOptionRaises ==
    (last.op = "compose_with"
     /\ last.extra \in {PyStr("strict"), PyStr("default, strict")})
        => IsRaise(last.res)


\* C20: vouch(fn, nil), with nil the only positional argument and no keyword
\* argument, calls fn with no argument at all and then checks the result as
\* usual: a result other than nil is returned unchanged, nil is reported as
\* a coercion error, and an exception of fn passes through.
C20_VouchNilMeansNoArgs ==
    (last.op = "vouch" /\ last.arg = Tuple(<<nil>>) /\ last.extra = PyBool(FALSE)) =>
        LET r == CallValue(last.self, <<>>, FALSE) IN
        /\ last.log = <<[c |-> last.self, arg |-> Tuple(<<>>)]>>
        /\ last.res = IF r = nil THEN Raise("CoercionError") ELSE r

\* vouch(noargs, nil) gave what noargs() returns
C20_Witness ==
    /\ last.op = "vouch"
    /\ last.self = Function("noargs")
    /\ last.arg = Tuple(<<nil>>)
    /\ last.extra = PyBool(FALSE)
    /\ last.res = PyInt(0)


\* the classes of composite coercers that have instances here
CompositeClasses ==
    {"compose", "some", "combo", "pargs", "iterable", "mapping", "safe",
     "typecast"}

\* C21: while a composite coercer is held, no step changes its inner
\* coercers: calls may change scope only.
C21_InnerNeverChanges ==
    [][(inst.ty = "coercer" /\ inst.s \in CompositeClasses /\ inst' # Unset)
         => inst' = inst]_vars

\* a later call of a compose coercer whose scope an earlier call had set
C21_Witness ==
    /\ last.op = "compose"
    /\ last.extra # Unset
    /\ inst = last.self
    /\ Len(inst.items) = MaxCoercers


\* the number of members of an iterable value (0 for any other value)
Size(v) == IF IsIterable(v) THEN Len(Members(v)) ELSE 0

\* C24: every call of compose, some, combo, pargs, iterable, mapping and
\* typecast returns, and the number of inner calls it makes is bounded by
\* the sizes of its inner tuple and of its input: each loop iteration
\* advances or ends the loop, and typecast tries each type at most once.
C24_CallsTerminate ==
    /\ last.op \in {"compose", "some", "combo", "typecast"} =>
        Len(last.log) <= Len(last.self.items)
    /\ last.op = "typecast" => last.res # NoReturn
    /\ last.op = "iterable" => Len(last.log) <= Size(last.arg)
    /\ last.op = "mapping" => Len(last.log) <= 2 * Size(last.arg)
    /\ last.op = "pargs" =>
        Len(last.log) <= 1 + Size(last.arg)
            + (IF Size(last.arg) = 1 THEN Size(Members(last.arg)[1]) ELSE 0)

\* the same for every call but typecast's
C24_OtherLoopsTerminate ==
    last.op # "typecast" => C24_CallsTerminate


\* the scope a call of the composite coercer self on arg leaves on an
\* instance whose scope was scope0
ScopeAfter(self, arg, scope0) ==
    CASE self.s = "compose" -> compose_call(self, arg, scope0).scope
      [] self.s = "some" -> some_call(self, arg, scope0).scope
      [] self.s = "combo" -> combo_call(self, arg, scope0).scope
      [] self.s = "pargs" -> pargs_call(self, arg, scope0).scope
      [] self.s = "iterable" -> iterable_call(self, arg, scope0).scope
      [] self.s = "mapping" -> mapping_call(self, arg, scope0).scope
      [] OTHER -> scope0

\* C22: every call of a compose, some, combo, pargs, iterable or mapping
\* coercer writes scope, on success and on failure: the scope after a call
\* stems from that call alone, whatever scope held before it.
C22_ScopeWrittenByEveryCall ==
    last.op \in {"compose", "some", "combo", "pargs", "iterable", "mapping"} =>
        \A s0 \in {Unset, None} : scope = ScopeAfter(last.self, last.arg, s0)


\* what a call of self on arg returns when it runs alone
ResultAlone(self, arg) ==
    IF self.s = "compose" THEN compose_call(self, arg, Unset).res
    ELSE iterable_call(self, arg, Unset).res

\* C23: two invocations of one compose or iterable instance, interleaved
\* at any point, each return what they return when run alone; scope ends
\* as it was before them or as one of the two invocations wrote it.
C23_RaceOnlyOnScope ==
    /\ \A k \in Threads :
        run[k].pc = "done" => run[k].res = ResultAlone(inst, run[k].arg)
    /\ (\A k \in Threads : run[k].pc = "done") =>
        scope \in {run[1].prior} \cup
                  {ScopeAfter(inst, run[k].arg, run[1].prior) : k \in Threads}

\* both invocations are past their first iteration and neither has returned
C23_Witness ==
    /\ \A k \in Threads : run[k].pc = "loop" /\ run[k].st.i >= 1
    /\ run[1].arg # run[2].arg

\* both have returned, and scope is what the first invocation wrote although
\* the second wrote too
C23_BothWrote ==
    /\ \A k \in Threads : run[k].pc = "done" /\ run[k].res = nil
    /\ ScopeAfter(inst, run[1].arg, Unset) # ScopeAfter(inst, run[2].arg, Unset)
    /\ scope = ScopeAfter(inst, run[1].arg, Unset)
    /\ run[1].prior # Unset


\* C25: for integer bounds, create_int_range_coerce(min, max) raises
\* exactly when min >= max; otherwise the coercer it returns gives the
\* integer value of its input when that lies between min and max, both
\* included, and nil for every other input.
C25_IntRange ==
    (last.op = "int_range" /\ \A i \in 1..2 : last.self.items[i].ty = "int") =>
        LET min == last.self.items[1].n
            max == last.self.items[2].n
            n == int_coerce(last.arg) IN
        /\ IsRaise(last.extra) <=> min >= max
        /\ ~IsRaise(last.extra) =>
            last.res = IF n.ty = "int" /\ min <= n.n /\ n.n <= max THEN n ELSE nil

\* the same, for inputs whose conversion to an integer does not raise
C25_IntRangeFiniteInputs ==
    (last.op = "int_range" /\ ~IsRaise(int_coerce(last.arg))) => C25_IntRange


\* C26: compose written as compose(compose(A, B), C), compose(A,
\* compose(B, C)), compose((A, [B, C])) or compose(A, identity, B, C) holds
\* the inner coercers (A, B, C) in that order, and some likewise with
\* nested some instances, sequences and the void coercer; a composite of
\* the other class among A, B, C stays one inner coercer.
C26_NestingFlattened ==
    /\ last.op = "compose_nested" => last.res = Coercer("compose", last.arg.items)
    /\ last.op = "some_nested" => last.res = Coercer("some", last.arg.items)

\* compose((int_coerce, [some(...), float_coerce])) holds the three of them
C26_Witness ==
    /\ last.op = "compose_nested"
    /\ last.extra = PyStr("sequences")
    /\ inst = Coercer("compose",
                      <<prim("int_coerce"),
                        Coercer("some", <<prim("int_coerce"), prim("identifier_coerce")>>),
                        prim("float_coerce")>>)


\* C27: a compose coercer starts with scope Unset; a call that fails
\* (returns nil) sets scope to the pair (value fed to the failing coercer,
\* failing coercer), and any other call leaves scope as it was. So scope
\* is Unset until a call fails and then tells of the latest failing call.
C27_ComposeScope ==
    /\ (last.op = "compose_new" /\ IsInst("compose")) => scope = Unset
    /\ last.op = "compose" =>
        LET n == Len(last.log) IN
        IF last.res = nil
        THEN scope = Tuple(<<last.log[n].arg, last.log[n].c>>)
        ELSE scope = last.extra

\* a successful call after a failed one: scope still tells of the failure
C27_Witness ==
    /\ last.op = "compose"
    /\ ok(last.res) /\ ~IsRaise(last.res)
    /\ last.extra.ty = "tuple"
    /\ scope = last.extra


\* the member coercer of the iterable coercer called last returns every
\* member of the argument as it is
MembersKept ==
    \A i \in 1..Size(last.arg) :
        Apply(last.self.items[1], Members(last.arg)[i]) = Members(last.arg)[i]

\* neither coercer of the mapping coercer called last changes a key or a
\* value of the argument
EntriesKept ==
    \A i \in 1..Len(last.arg.items) :
        /\ Apply(last.self.items[1], last.arg.items[i].items[1])
             = last.arg.items[i].items[1]
        /\ Apply(last.self.items[2], last.arg.items[i].items[2])
             = last.arg.items[i].items[2]

\* C28: a successful iterable or mapping call that changed no member (no
\* key and no value) returns the input object itself; a successful
\* iterable call that changed a member returns a container of the type of
\* the input, or a list when that type cannot be rebuilt from the members;
\* an iterator without length gives a list.
C28_ShapePreserved ==
    /\ (last.op = "iterable" /\ ok(last.res) /\ ~IsRaise(last.res)) =>
        /\ (MembersKept /\ IsSized(last.arg)) =>
                last.alias /\ last.res = last.arg
        /\ (~MembersKept /\ IsSized(last.arg)) =>
                \/ last.res.ty = last.arg.ty
                \/ /\ last.res.ty = "list"
                   /\ IsRaise(TypeRebuild(last.arg.ty, last.res.items))
        /\ ~IsSized(last.arg) => last.res.ty = "list"
    /\ (last.op = "mapping" /\ ok(last.res) /\ ~IsRaise(last.res)
        /\ IsMapping(last.arg) /\ EntriesKept) =>
            last.alias /\ last.res = last.arg

\* the same, for iterable arguments that are sequences or sets
C28_SequencesAndSets ==
    (last.op = "iterable" => IsSequence(last.arg) \/ IsSet(last.arg)
                             \/ ~IsSized(last.arg))
        => C28_ShapePreserved


\* what a call of the composite coercer self on arg returns on an instance
\* whose scope is scope0
ResultWith(self, arg, scope0) ==
    CASE self.s = "compose" -> compose_call(self, arg, scope0).res
      [] self.s = "some" -> some_call(self, arg, scope0).res
      [] self.s = "combo" -> combo_call(self, arg, scope0).res
      [] self.s = "pargs" -> pargs_call(self, arg, scope0).res
      [] self.s = "iterable" -> iterable_call(self, arg, scope0).res
      [] self.s = "mapping" -> mapping_call(self, arg, scope0).res
      [] self.s = "safe" -> safe_call(self, arg, scope0).res
      [] OTHER -> typecast_call(self, arg, scope0).res

\* C29: what a call of a composite coercer returns does not depend on the
\* scope the instance held before the call: it is what an instance of the
\* same coercers with scope Unset returns for that input.
C29_ResultIgnoresScope ==
    last.op \in CompositeClasses =>
        last.res = ResultWith(last.self, last.arg, Unset)

\* a some coercer whose scope an earlier call had set accepts with another
\* of its coercers
C29_Witness ==
    /\ last.op = "some"
    /\ last.extra.ty = "coercer"
    /\ scope.ty = "coercer"
    /\ scope # last.extra
    /\ ok(last.res) /\ ~IsRaise(last.res)


\* the coercers the factory makes of the sources ss
Coerced(ss) == [i \in 1..Len(ss) |-> coercer_new(ss[i])]

\* the results of a and of b agree on arguments of every kind
SameBehaviour(a, b) ==
    \A v \in Scalars \cup {Tuple(<<>>)} : Apply(a, v) = Apply(b, v)

\* C30: compose(s1, .., sn) and some(s1, .., sn), for sources among t, nil,
\* None, a type, a tuple of types, a function and a coercer, are made
\* without error and behave as compose(coercer(s1), .., coercer(sn)) and
\* some(coercer(s1), .., coercer(sn)).
C30_SourcesAsCoercers ==
    /\ last.op = "compose_from" =>
        /\ ~IsRaise(last.res)
        /\ SameBehaviour(last.res, compose_new(Coerced(last.arg.items), <<>>))
    /\ last.op = "some_from" =>
        /\ ~IsRaise(last.res)
        /\ SameBehaviour(last.res, some_new(Coerced(last.arg.items)))

\* the same, when nil is not among the sources and compose is given no
\* tuple of types
C30_OtherSources ==
    (/\ last.op \in {"compose_from", "some_from"}
     /\ \E i \in 1..Len(last.arg.items) :
            \/ last.arg.items[i] = nil
            \/ last.op = "compose_from" /\ last.arg.items[i].ty = "tuple")
    \/ C30_SourcesAsCoercers

====
